---- MODULE Spec2Model ----
(***************************************************************************)
(* A model of streamlink's DASH stream (src/streamlink/stream/dash.py):    *)
(*   - DASHStreamWorker.iter_segments / reload : the segment scheduler     *)
(*   - DASHStreamWriter.fetch / write          : the segment fetcher       *)
(*   - DASHStream.parse_manifest               : the stream selector       *)
(* Each component has a specification of its own (SpecWorker, SpecFetch,   *)
(* SpecWrite, SpecParse); the variables of the other components stay at    *)
(* their idle values.                                                      *)
(***************************************************************************)
EXTENDS Integers, Sequences, FiniteSets, TLC

VARIABLES
    \* ---- DASHStreamWorker ----
    wpc,              \* position of iter_segments
    init,             \* local `init`
    back_off_factor,  \* local `back_off_factor`, an exact rational <<num, den>>
    mpd,              \* self.mpd, the current manifest snapshot
    stream_mpd,       \* self.stream.mpd, the manifest the stream was built with
    representation,   \* local `representation` (a record, or None)
    refresh_wait,     \* local `refresh_wait`
    pending,          \* what is left of representation.segments(init=init)
    worker_closed,    \* the worker's self.closed
    released,         \* history: the segments yielded so far
    seq_requests,     \* history: the init flag of every segments() call
    new_mpd,          \* the manifest the last reload() fetched (or None)
    old_mpd,          \* history: self.mpd as the last reload() found it
    reload_result,    \* history: what the last reload() returned, as a string
    back_off_before,  \* history: back_off_factor when the last reload() was called
    reload_calls,     \* history: number of reload() calls
    only_unchanged,   \* history: every reload() so far fetched and returned False
    cycles,           \* history: number of loop iterations started
    sleeper_duration, \* the argument of the sleeper() entered last
    slept             \* history: the duration the last sleeper() exit waited for

wvars == <<wpc, init, back_off_factor, mpd, stream_mpd, representation, refresh_wait,
           pending, worker_closed, released, seq_requests, new_mpd, old_mpd,
           reload_result, back_off_before, reload_calls, only_unchanged,
           cycles, sleeper_duration, slept>>

VARIABLES
    \* ---- DASHStreamWriter ----
    writer_closed,    \* the writer's self.closed
    fpc,              \* position of fetch
    segment,          \* fetch's argument `segment`
    retries,          \* fetch's argument `retries`: <<>> is None, <<n>> is n
    now,              \* local `now`
    clock,            \* the wall clock
    requests,         \* history: the requests issued, each with its instant
    fetch_result,     \* what the outermost fetch returned
    budget,           \* history: `retries` of the outermost call
    closed_at_call,   \* history: self.closed when the outermost call began
    closed_in_wait,   \* history: <<requests issued>> when closed inside sleep_until
    waits,            \* history: number of sleep_until() calls
    wrpc,             \* position of write
    content,          \* the chunks res.iter_content() yields
    chunks,           \* those not yet taken from it
    buffer,           \* what has been written to self.reader.buffer
    buffer_at_call,   \* history: buffer when write was called
    closed_after      \* history: chunks taken when self.closed was set

fvars == <<fpc, segment, retries, now, clock, requests, fetch_result, budget,
           closed_at_call, closed_in_wait, waits>>

wrvars == <<wrpc, content, chunks, buffer, buffer_at_call, closed_after>>

VARIABLES
    \* ---- DASHStream.parse_manifest ----
    ppc,              \* position of parse_manifest
    asets,            \* mpd.periods[0].adaptationSets of the parsed manifest
    aset_idx,         \* the adaptation set the loop of line 157 is at
    video,            \* local `video`
    audio,            \* local `audio`
    pairs,            \* what is left of itertools.product(video, audio)
    ret               \* local `ret`, the dict returned

pvars == <<ppc, asets, aset_idx, video, audio, pairs, ret>>

VARIABLES
    \* ---- DASHStream.open and the pipelines it starts ----
    opc,                    \* position of open
    video_representation,   \* self.video_representation (or None)
    audio_representation,   \* self.audio_representation (or None)
    mpd_objects,            \* the MPD objects; mpd_objects[1] is self.mpd of the stream
    readers,                \* the DASHStreamReader objects, in the order created
    muxers,                 \* the FFMPEGMuxer objects created
    open_result,            \* what open returned
    pipes                   \* per reader: the state of its worker

ovars == <<opc, video_representation, audio_representation, mpd_objects,
           readers, muxers, open_result, pipes>>

vars == <<wvars, writer_closed, fvars, wrvars, pvars, ovars>>

\* None, where a manifest or a representation is expected
None == [none |-> TRUE]

\* a duration that was never set
Unset == <<>>

\* ------------------------------------------------------------------------
\* Bounds of the model
\* ------------------------------------------------------------------------
MaxCycles == 3          \* loop iterations of iter_segments explored
MaxPublish == 2         \* publish timestamps are 0..MaxPublish
MaxSegs == 2            \* media segments of a representation
MaxClock == 3           \* clock instants are 0..MaxClock
MaxRetries == 3         \* retry budgets are 0..MaxRetries, and None
MaxChunks == 3          \* chunks of a response body
MaxSets == 2            \* adaptation sets of a parsed manifest
MaxOpenCycles == 2      \* loop iterations of each opened reader's worker

\* ------------------------------------------------------------------------
\* Exact rationals for back_off_factor: <<n, d>> is n/d, d > 0, in lowest terms
\* ------------------------------------------------------------------------
RECURSIVE Gcd(_, _)
Gcd(a, b) == IF b = 0 THEN a ELSE Gcd(b, a % b)

Rat(n, d) == LET g == Gcd(n, d) IN <<n \div g, d \div g>>

RatMul(a, b) == Rat(a[1] * b[1], a[2] * b[2])

RatLeq(a, b) == a[1] * b[2] <= b[1] * a[2]

\* Python's max(a, b): b only when it is strictly greater
RatMax(a, b) == IF RatLeq(b, a) THEN a ELSE b

One == <<1, 1>>

Growth == <<13, 10>>      \* the literal 1.3

Ten == <<10, 1>>          \* the literal 10.0

\* ------------------------------------------------------------------------
\* Manifest snapshots (the MPD object, as far as the worker reads it)
\* ------------------------------------------------------------------------
RepresentationId == "v1"       \* self.reader.representation_id

DefaultRefresh == 5

\* <<minimumUpdatePeriod, periods[0].duration>> in seconds
Timings == {<<0, 0>>, <<2, 0>>, <<2, 3>>}

Rep(id, n) == [id |-> id, nseg |-> n]

\* periods[0].adaptationSets, each a sequence of representations
Layouts == { << <<Rep("a1", 1)>> >>,
             << <<Rep("v1", MaxSegs)>>, <<Rep("a1", 1)>> >> }

Manifests == { [type |-> t, publishTime |-> p, minimumUpdatePeriod |-> tm[1],
                duration |-> tm[2], adaptationSets |-> l] :
               t \in {"static", "dynamic"}, p \in 0..MaxPublish,
               tm \in Timings, l \in Layouts }

RECURSIVE Flatten(_)
Flatten(ss) == IF ss = <<>> THEN <<>> ELSE Head(ss) \o Flatten(Tail(ss))

\* lines 66-70: the last representation whose id matches, None without one
RECURSIVE LastMatch(_, _, _)
LastMatch(reps, id, found) ==
    IF reps = <<>> THEN found
    ELSE LastMatch(Tail(reps), id, IF Head(reps).id = id THEN Head(reps) ELSE found)

FindRepresentation(m, id) == LastMatch(Flatten(m.adaptationSets), id, None)

Max2(a, b) == IF a >= b THEN a ELSE b

\* a wait that takes the smaller of the two
RefreshWait_Min(m) ==
    LET w == IF m.minimumUpdatePeriod <= m.duration
             THEN m.minimumUpdatePeriod ELSE m.duration
    IN  IF w = 0 THEN DefaultRefresh ELSE w

\* lines 71-72: max(minimumUpdatePeriod, duration) or 5
RefreshWait(m) ==
    LET w == Max2(m.minimumUpdatePeriod, m.duration)
    IN  IF w = 0 THEN DefaultRefresh ELSE w

\* representation.segments(init=init): segment 0 is the initialization
\* segment, 1..nseg the media segments
Segments(rep, i) ==
    LET media == [k \in 1..rep.nseg |-> k]
    IN  IF i THEN <<0>> \o media ELSE media

\* line 83
GrowBackOff(b) == RatMax(RatMul(b, Growth), Ten)

\* a reset that leaves the multiplier at its floor value
ResetBackOff_Keeps == Ten

\* line 85
ResetBackOff == One

\* a type test that takes every manifest for a live one
IsDynamic_Always(m) == TRUE

\* line 81
IsDynamic(m) == m.type = "dynamic"

\* a flag that is never cleared
InitAfterCycle_Stays == TRUE

\* line 88
InitAfterCycle == FALSE

\* a reload that does not look at self.closed
ReloadReturnsAtOnce_Never(c) == FALSE

\* lines 91-92
ReloadReturnsAtOnce(c) == c

\* a comparison that takes an equal timestamp for a change
Changed_NotStrict(new, old) == new.publishTime >= old.publishTime

\* line 103
Changed(new, old) == new.publishTime > old.publishTime

\* ------------------------------------------------------------------------
\* Idle values of each component, for the specifications of the others
\* ------------------------------------------------------------------------
NoSegment == [url |-> "", available_at |-> 0]

NoResult == [kind |-> "pending"]

WriterIdle ==
    /\ writer_closed = FALSE
    /\ fpc = "idle"
    /\ segment = NoSegment
    /\ retries = <<>>
    /\ now = 0
    /\ clock = 0
    /\ requests = <<>>
    /\ fetch_result = NoResult
    /\ budget = <<>>
    /\ closed_at_call = FALSE
    /\ closed_in_wait = Unset
    /\ waits = 0
    /\ wrpc = "idle"
    /\ content = <<>>
    /\ chunks = <<>>
    /\ buffer = <<>>
    /\ buffer_at_call = <<>>
    /\ closed_after = 0

ParseIdle ==
    /\ ppc = "idle"
    /\ asets = <<>>
    /\ aset_idx = 1
    /\ video = <<>>
    /\ audio = <<>>
    /\ pairs = <<>>
    /\ ret = <<>>

Roles == {"video", "audio"}

\* a worker that does not exist yet
Unopened == [pc |-> "unopened", mpd |-> 0, back_off_factor |-> <<1, 1>>,
             init |-> TRUE, closed |-> FALSE, cycles |-> 0]

OpenIdle ==
    /\ opc = "idle"
    /\ video_representation = None
    /\ audio_representation = None
    /\ mpd_objects = <<>>
    /\ readers = <<>>
    /\ muxers = <<>>
    /\ open_result = NoResult
    /\ pipes = [r \in Roles |-> Unopened]

WorkerIdle ==
    /\ wpc = "idle"
    /\ init = TRUE
    /\ back_off_factor = <<1, 1>>
    /\ mpd = None
    /\ stream_mpd = None
    /\ representation = None
    /\ refresh_wait = 0
    /\ pending = <<>>
    /\ worker_closed = FALSE
    /\ released = <<>>
    /\ seq_requests = <<>>
    /\ new_mpd = None
    /\ old_mpd = None
    /\ reload_result = "unset"
    /\ back_off_before = <<1, 1>>
    /\ reload_calls = 0
    /\ only_unchanged = TRUE
    /\ cycles = 0
    /\ sleeper_duration = Unset
    /\ slept = Unset

\* ------------------------------------------------------------------------
\* DASHStreamWorker
\* ------------------------------------------------------------------------
InitWorker ==
    /\ wpc = "head"
    /\ init = TRUE
    /\ back_off_factor = One
    /\ mpd \in Manifests
    /\ stream_mpd = mpd
    /\ representation = None
    /\ refresh_wait = 0
    /\ pending = <<>>
    /\ worker_closed = FALSE
    /\ released = <<>>
    /\ seq_requests = <<>>
    /\ new_mpd = None
    /\ old_mpd = None
    /\ reload_result = "unset"
    /\ back_off_before = One
    /\ reload_calls = 0
    /\ only_unchanged = TRUE
    /\ cycles = 0
    /\ sleeper_duration = Unset
    /\ slept = Unset

\* the worker is closed from outside (SegmentedStreamWorker.close)
CloseWorker ==
    /\ UNCHANGED <<writer_closed, fvars, wrvars, pvars, ovars>>
    /\ ~worker_closed
    /\ worker_closed' = TRUE
    /\ UNCHANGED <<back_off_before, wpc, init, back_off_factor, mpd, stream_mpd, representation,
                   refresh_wait, pending, released, seq_requests, new_mpd,
                   old_mpd, reload_result, reload_calls, only_unchanged,
                   cycles, sleeper_duration, slept>>

\* line 64, closed: the loop ends and iter_segments returns
LoopExit ==
    /\ UNCHANGED <<writer_closed, fvars, wrvars, pvars, ovars>>
    /\ wpc = "head"
    /\ worker_closed
    /\ wpc' = "done"
    /\ UNCHANGED <<back_off_before, init, back_off_factor, mpd, stream_mpd, representation,
                   refresh_wait, pending, worker_closed, released,
                   seq_requests, new_mpd, old_mpd, reload_result,
                   reload_calls, only_unchanged, cycles, sleeper_duration,
                   slept>>

\* lines 64-75: one loop iteration starts
LoopHead ==
    /\ UNCHANGED <<writer_closed, fvars, wrvars, pvars, ovars>>
    /\ wpc = "head"
    /\ ~worker_closed
    /\ cycles < MaxCycles
    /\ cycles' = cycles + 1
    /\ representation' = FindRepresentation(mpd, RepresentationId)
    /\ refresh_wait' = RefreshWait(mpd)
    /\ sleeper_duration' = RatMul(<<refresh_wait', 1>>, back_off_factor)
    /\ IF representation' # None
       THEN /\ seq_requests' = Append(seq_requests, init)
            /\ pending' = Segments(representation', init)
            /\ wpc' = "segs"
       ELSE /\ wpc' = "sleep"
            /\ UNCHANGED <<seq_requests, pending>>
    /\ UNCHANGED <<back_off_before, init, back_off_factor, mpd, stream_mpd, worker_closed,
                   released, new_mpd, old_mpd, reload_result, reload_calls,
                   only_unchanged, slept>>

\* lines 75-78: the next segment of the sequence, or its end
NextSegment ==
    /\ UNCHANGED <<writer_closed, fvars, wrvars, pvars, ovars>>
    /\ wpc = "segs"
    /\ IF pending = <<>>
       THEN wpc' = "after" /\ UNCHANGED <<pending, released>>
       ELSE IF worker_closed
            THEN wpc' = "after" /\ pending' = <<>> /\ UNCHANGED released
            ELSE /\ released' = Append(released, Head(pending))
                 /\ pending' = Tail(pending)
                 /\ UNCHANGED wpc
    /\ UNCHANGED <<back_off_before, init, back_off_factor, mpd, stream_mpd, representation,
                   refresh_wait, worker_closed, seq_requests, new_mpd, old_mpd,
                   reload_result, reload_calls, only_unchanged, cycles,
                   sleeper_duration, slept>>

\* lines 86-87: a manifest that is not dynamic ends iter_segments
StaticReturn ==
    /\ UNCHANGED <<writer_closed, fvars, wrvars, pvars, ovars>>
    /\ wpc = "after"
    /\ ~IsDynamic(mpd)
    /\ wpc' = "exit"
    /\ UNCHANGED <<back_off_before, init, back_off_factor, mpd, stream_mpd, representation,
                   refresh_wait, pending, worker_closed, released,
                   seq_requests, new_mpd, old_mpd, reload_result,
                   reload_calls, only_unchanged, cycles, sleeper_duration,
                   slept>>

\* lines 81-82, 90-92: reload() on a closed worker returns None, which
\* line 82 takes as "not changed" (lines 83, 88)
ReloadClosed ==
    /\ UNCHANGED <<writer_closed, fvars, wrvars, pvars, ovars>>
    /\ wpc = "after"
    /\ IsDynamic(mpd)
    /\ ReloadReturnsAtOnce(worker_closed)
    /\ reload_calls' = reload_calls + 1
    /\ reload_result' = "None"
    /\ new_mpd' = None
    /\ old_mpd' = mpd
    /\ back_off_before' = back_off_factor
    /\ only_unchanged' = FALSE
    /\ back_off_factor' = GrowBackOff(back_off_factor)
    /\ init' = InitAfterCycle
    /\ wpc' = "sleep"
    /\ UNCHANGED <<mpd, stream_mpd, representation, refresh_wait, pending,
                   worker_closed, released, seq_requests, cycles,
                   sleeper_duration, slept>>

\* lines 81-82, 90-94: reload() on an open worker goes on to the request
ReloadEnter ==
    /\ UNCHANGED <<writer_closed, fvars, wrvars, pvars, ovars>>
    /\ wpc = "after"
    /\ IsDynamic(mpd)
    /\ ~ReloadReturnsAtOnce(worker_closed)
    /\ reload_calls' = reload_calls + 1
    /\ new_mpd' = None
    /\ old_mpd' = mpd
    /\ back_off_before' = back_off_factor
    /\ wpc' = "reloading"
    /\ UNCHANGED <<init, back_off_factor, mpd, stream_mpd, representation,
                   refresh_wait, pending, worker_closed, released,
                   seq_requests, reload_result, only_unchanged, cycles,
                   sleeper_duration, slept>>

\* lines 96-101: the request or the parse raises; nothing in iter_segments
\* catches it
ReloadRaises ==
    /\ UNCHANGED <<writer_closed, fvars, wrvars, pvars, ovars>>
    /\ wpc = "reloading"
    /\ wpc' = "raised"
    /\ only_unchanged' = FALSE
    /\ UNCHANGED <<back_off_before, init, back_off_factor, mpd, stream_mpd, representation,
                   refresh_wait, pending, worker_closed, released,
                   seq_requests, new_mpd, old_mpd, reload_result,
                   reload_calls, cycles, sleeper_duration, slept>>

\* lines 96-107, then 82-85 and 88: a manifest is fetched
ReloadFetched ==
    /\ UNCHANGED <<writer_closed, fvars, wrvars, pvars, ovars>>
    /\ wpc = "reloading"
    /\ \E m \in Manifests :
          /\ new_mpd' = m
          /\ reload_result' = IF Changed(m, mpd) THEN "True" ELSE "False"
          /\ mpd' = IF Changed(m, mpd) THEN m ELSE mpd
          /\ back_off_factor' = IF ~Changed(m, mpd)
                                 THEN GrowBackOff(back_off_factor)
                                 ELSE ResetBackOff
          /\ only_unchanged' = (only_unchanged /\ ~Changed(m, mpd))
    /\ init' = InitAfterCycle
    /\ wpc' = "sleep"
    /\ UNCHANGED <<back_off_before, old_mpd, stream_mpd, representation,
                   refresh_wait, pending,
                   worker_closed, released, seq_requests, reload_calls,
                   cycles, sleeper_duration, slept>>

\* line 73, leaving the with block: sleeper() waits for what is left of its
\* duration; then the loop goes on, or the return of line 87 completes
SleeperExit ==
    /\ UNCHANGED <<writer_closed, fvars, wrvars, pvars, ovars>>
    /\ wpc \in {"sleep", "exit"}
    /\ slept' = sleeper_duration
    /\ wpc' = IF wpc = "sleep" THEN "head" ELSE "done"
    /\ UNCHANGED <<back_off_before, init, back_off_factor, mpd, stream_mpd, representation,
                   refresh_wait, pending, worker_closed, released,
                   seq_requests, new_mpd, old_mpd, reload_result,
                   reload_calls, only_unchanged, cycles, sleeper_duration>>

NextWorker ==
    \/ CloseWorker
    \/ LoopExit
    \/ LoopHead
    \/ NextSegment
    \/ StaticReturn
    \/ ReloadClosed
    \/ ReloadEnter
    \/ ReloadRaises
    \/ ReloadFetched
    \/ SleeperExit

WorkerStart == InitWorker /\ WriterIdle /\ ParseIdle /\ OpenIdle

SpecWorker == WorkerStart /\ [][NextWorker]_vars

\* a step of the worker's own thread
WorkerStep ==
    \/ LoopExit
    \/ LoopHead
    \/ NextSegment
    \/ StaticReturn
    \/ ReloadClosed
    \/ ReloadEnter
    \/ ReloadRaises
    \/ ReloadFetched
    \/ SleeperExit

\* the worker's thread is scheduled for as long as it has a step to take
SpecWorkerFair == SpecWorker /\ WF_vars(WorkerStep)

\* ------------------------------------------------------------------------
\* Properties of the worker
\* ------------------------------------------------------------------------
RatMin(a, b) == IF RatLeq(a, b) THEN a ELSE b

RECURSIVE RatPow(_, _)
RatPow(a, k) == IF k = 0 THEN One ELSE RatMul(a, RatPow(a, k - 1))

\* reload() calls that have returned
ReloadsReturned == IF wpc = "reloading" THEN reload_calls - 1 ELSE reload_calls

RepresentationPresent(m) == FindRepresentation(m, RepresentationId) # None

\* C1: in every reachable state of iter_segments the backoff multiplier
\* never exceeds 10
C1_BackOffNeverExceedsTen == RatLeq(back_off_factor, Ten)

\* C2: while every reload has reported "unchanged", the backoff multiplier
\* after k reloads is 1.3^k until that reaches the cap 10, and 10 from then
\* on (so it starts at 1, never decreases, and is constant once capped)
C2_UnchangedBackOffSequence ==
    (RepresentationPresent(stream_mpd) /\ stream_mpd.type = "dynamic" /\ only_unchanged)
        => back_off_factor = RatMin(RatPow(Growth, ReloadsReturned), Ten)

\* C3: right after a reload that fetched a manifest with a strictly greater
\* publish timestamp, the backoff multiplier is 1 and self.mpd is the
\* fetched manifest; the cycle that follows looks up its representation
\* and computes its wait from that manifest
C3_ChangedReloadResets ==
    (new_mpd # None /\ new_mpd.publishTime > old_mpd.publishTime) =>
        /\ wpc = "sleep" => (back_off_factor = One /\ mpd = new_mpd)
        /\ wpc \in {"segs", "after"} =>
              /\ representation = FindRepresentation(new_mpd, RepresentationId)
              /\ refresh_wait = RefreshWait(new_mpd)
              /\ sleeper_duration = <<refresh_wait, 1>>

\* C3 witness: a changed reload that found the multiplier above 1, and the
\* cycle after it
C3_Witness ==
    /\ new_mpd # None
    /\ new_mpd.publishTime > old_mpd.publishTime
    /\ RatLeq(Ten, back_off_before)
    /\ wpc = "segs"
    /\ mpd = new_mpd

StaticRun == stream_mpd.type = "static" /\ RepresentationPresent(stream_mpd)

\* C4: with a static manifest whose bound representation is present,
\* reload() is never called, the segment sequence is requested once and, if
\* the worker is not closed, released whole; after that one cycle
\* iter_segments returns, with no close needed
C4_StaticSafe ==
    StaticRun =>
        /\ reload_calls = 0
        /\ wpc \notin {"reloading", "raised", "sleep"}
        /\ mpd = stream_mpd
        /\ cycles <= 1
        /\ Len(seq_requests) = cycles
        /\ (wpc \in {"exit", "done"} /\ ~worker_closed) =>
              /\ seq_requests = <<TRUE>>
              /\ released = Segments(FindRepresentation(stream_mpd, RepresentationId), TRUE)

C13_AbsentReloadsOrStops ==
    (wpc = "sleep" /\ representation = None) =>
        /\ mpd.type = "dynamic"
        /\ reload_calls = cycles

\* C14: a reload that fails is not propagated out of iter_segments
C14_ReloadErrorNotPropagated == wpc # "raised"

ReloadReturned == old_mpd # None /\ wpc \notin {"reloading", "raised"}

C15_AfterReload ==
    /\ (old_mpd # None /\ wpc \in {"reloading", "raised"}) => mpd = old_mpd
    /\ ReloadReturned =>
          /\ reload_result = "True" <=> mpd # old_mpd
          /\ reload_result = "True" =>
                /\ new_mpd # None
                /\ mpd = new_mpd
                /\ new_mpd.publishTime > old_mpd.publishTime
          /\ reload_result = "False" =>
                /\ new_mpd # None
                /\ new_mpd.publishTime <= old_mpd.publishTime
          /\ reload_result = "None" => new_mpd = None

C15_Replaced ==
    mpd' # mpd =>
        /\ wpc = "reloading"
        /\ reload_result' = "True"
        /\ mpd' = new_mpd'
        /\ mpd'.publishTime > mpd.publishTime

\* C15: self.mpd is replaced only by a reload whose manifest has a strictly
\* greater publish timestamp, reload returns True exactly when it replaced
\* it, an unchanged, failed or skipped reload leaves it as it was, and its
\* publish timestamp never decreases
C15_SnapshotReplacedOnlyByNewer ==
    /\ []C15_AfterReload
    /\ [][C15_Replaced]_vars
    /\ [][mpd'.publishTime >= mpd.publishTime]_vars

\* C15 witness: a fetched manifest with the same timestamp, other content,
\* was discarded
C15_Witness ==
    /\ ReloadReturned
    /\ reload_result = "False"
    /\ new_mpd # mpd
    /\ new_mpd.publishTime = mpd.publishTime
    /\ reload_calls = 2

\* C16: the first segments() call of a worker passes init=True and every
\* later one init=False
C16_InitOnlyOnce ==
    \A i \in 1..Len(seq_requests) : seq_requests[i] = (i = 1)

\* C16 witness: three sequences requested, with a changed reload between
C16_Witness ==
    /\ Len(seq_requests) = 3
    /\ reload_result = "True"

C17_AfterClose ==
    (worker_closed /\ wpc # "reloading") =>
        /\ released' = released
        /\ mpd' = mpd
        /\ new_mpd' \in {new_mpd, None}
        /\ wpc' # "reloading"

C17_OnlyCloseStops == (wpc = "done" /\ mpd.type = "dynamic") => worker_closed

\* how many steps a closed worker is from its end, at most
ClosedRank(pc) ==
    CASE pc = "segs" -> 5
      [] pc \in {"after", "reloading"} -> 4
      [] pc = "sleep" -> 3
      [] pc = "head" -> 2
      [] pc = "exit" -> 1
      [] OTHER -> 0

C17_Descends == worker_closed => ClosedRank(wpc') < ClosedRank(wpc)

C17_CanStep == (worker_closed /\ wpc \notin {"done", "raised"}) => ENABLED WorkerStep

\* C17: once the worker is closed and not inside a reload's request, no
\* segment is released, no manifest is fetched and self.mpd stays; the
\* worker then ends: it always has a step to take and each step brings it
\* nearer to the end of iter_segments; and with a dynamic manifest
\* iter_segments returns only when closed
C17_ClosedStopsScheduler ==
    /\ [][C17_AfterClose /\ C17_Descends]_vars
    /\ []C17_OnlyCloseStops
    /\ []C17_CanStep

\* C17 witness: closed in the middle of the first sequence; the reload was
\* skipped and iter_segments returned
C17_Witness ==
    /\ wpc = "done"
    /\ worker_closed
    /\ mpd.type = "dynamic"
    /\ reload_result = "None"
    /\ Len(released) = 1

ClaimedBase(m) ==
    IF m.minimumUpdatePeriod = 0 /\ m.duration = 0 THEN 5
    ELSE IF m.minimumUpdatePeriod >= m.duration THEN m.minimumUpdatePeriod
    ELSE m.duration

ClaimedWait(m, b) == RatMul(<<ClaimedBase(m), 1>>, b)

\* C19: the wait of a cycle is base x multiplier, both as they were when
\* the cycle began: until the cycle's reload self.mpd and back_off_factor
\* are those, after it old_mpd and back_off_before are; and the sleeper
\* waits for that duration
C19_WaitFixedAtCycleStart ==
    /\ (wpc \in {"segs", "after", "reloading", "exit"}
          \/ (wpc = "sleep" /\ representation = None))
        => sleeper_duration = ClaimedWait(mpd, back_off_factor)
    /\ (wpc = "sleep" /\ representation # None)
        => sleeper_duration = ClaimedWait(old_mpd, back_off_before)
    /\ (wpc \in {"head", "done"} /\ slept # Unset) => slept = sleeper_duration

\* C19 witness: the reload of the cycle changed the base and reset a
\* multiplier that was above 1; the wait of the cycle is still the old one
C19_Witness ==
    /\ wpc = "head"
    /\ slept # Unset
    /\ reload_result = "True"
    /\ ClaimedBase(mpd) # ClaimedBase(old_mpd)
    /\ back_off_before # One
    /\ back_off_factor = One
    /\ slept = ClaimedWait(old_mpd, back_off_before)

\* ------------------------------------------------------------------------
\* DASHStreamWriter.fetch
\* ------------------------------------------------------------------------
SegmentInputs == [url : {"seg1.m4s", "seg2.m4s"}, available_at : 0..MaxClock]

BudgetInputs == {<<>>} \cup {<<n>> : n \in 0..MaxRetries}

\* `not retries` under a budget test that takes only None for "no budget"
Falsy_NoneOnly(r) == r = <<>>

\* line 26: `not retries` is true of None and of 0
Falsy(r) == r = <<>> \/ r[1] = 0

\* line 26
FetchReturnsAtOnce(c, r) == c \/ Falsy(r)

\* a wait test with the comparison turned round
NeedsWait_Inverted(seg, t) == seg.available_at < t

\* line 31
NeedsWait(seg, t) == seg.available_at > t

\* a retry that passes the budget on as it is
NextBudget_Same(r) == r

\* line 42: retries - 1
NextBudget(r) == <<r[1] - 1>>

Response(k) == [kind |-> "response", request |-> k]

ReturnedNone == [kind |-> "None"]

InitFetch ==
    /\ writer_closed \in BOOLEAN
    /\ fpc = "call"
    /\ segment \in SegmentInputs
    /\ retries \in BudgetInputs
    /\ now = 0
    /\ clock = 0
    /\ requests = <<>>
    /\ fetch_result = NoResult
    /\ budget = retries
    /\ closed_at_call = writer_closed
    /\ closed_in_wait = Unset
    /\ waits = 0
    /\ wrpc = "idle"
    /\ content = <<>>
    /\ chunks = <<>>
    /\ buffer = <<>>
    /\ buffer_at_call = <<>>
    /\ closed_after = 0

\* the outermost call begins at some instant: until then the clock runs and
\* the writer may be closed
FetchCall ==
    /\ fpc = "call"
    /\ fpc' = "entry"
    /\ closed_at_call' = writer_closed
    /\ UNCHANGED closed_in_wait
    /\ UNCHANGED <<segment, retries, now, clock, requests, fetch_result,
                   budget, waits, writer_closed>>
    /\ UNCHANGED <<wvars, wrvars, pvars, ovars>>

\* lines 26-31: return at once, or read the clock and decide on the wait
FetchEnter ==
    /\ fpc = "entry"
    /\ IF FetchReturnsAtOnce(writer_closed, retries)
       THEN /\ fetch_result' = ReturnedNone
            /\ fpc' = "done"
            /\ UNCHANGED now
       ELSE /\ now' = clock
            /\ fpc' = IF NeedsWait(segment, now') THEN "wait" ELSE "request"
            /\ UNCHANGED fetch_result
    /\ UNCHANGED <<segment, retries, clock, requests, budget, closed_at_call,
                   closed_in_wait,
                   waits, writer_closed>>
    /\ UNCHANGED <<wvars, wrvars, pvars, ovars>>

\* line 36: sleep_until(segment.available_at) returns at that instant or,
\* with scheduling delay, after it
SleepUntil ==
    /\ fpc = "wait"
    /\ \E t \in clock..MaxClock :
          /\ t >= segment.available_at
          /\ clock' = t
    /\ waits' = waits + 1
    /\ fpc' = "request"
    /\ UNCHANGED <<segment, retries, now, requests, fetch_result, budget,
                   closed_at_call, closed_in_wait, writer_closed>>
    /\ UNCHANGED <<wvars, wrvars, pvars, ovars>>

\* lines 37-39: the request goes out
IssueRequest ==
    /\ fpc = "request"
    /\ requests' = Append(requests, [url |-> segment.url, at |-> clock])
    /\ fpc' = "inflight"
    /\ UNCHANGED <<segment, retries, now, clock, fetch_result, budget,
                   closed_at_call, closed_in_wait, waits, writer_closed>>
    /\ UNCHANGED <<wvars, wrvars, pvars, ovars>>

\* line 37: the response is returned, through every enclosing call
RequestSucceeds ==
    /\ fpc = "inflight"
    /\ fetch_result' = Response(Len(requests))
    /\ fpc' = "done"
    /\ UNCHANGED <<segment, retries, now, clock, requests, budget,
                   closed_at_call, closed_in_wait, waits, writer_closed>>
    /\ UNCHANGED <<wvars, wrvars, pvars, ovars>>

\* lines 40-42: StreamError; fetch calls itself with one retry less
RequestFails ==
    /\ fpc = "inflight"
    /\ retries' = NextBudget(retries)
    /\ fpc' = "entry"
    /\ UNCHANGED <<segment, now, clock, requests, fetch_result, budget,
                   closed_at_call, closed_in_wait, waits, writer_closed>>
    /\ UNCHANGED <<wvars, wrvars, pvars, ovars>>

\* time passes
Tick ==
    /\ fpc # "idle"
    /\ clock < MaxClock
    /\ clock' = clock + 1
    /\ UNCHANGED <<fpc, segment, retries, now, requests, fetch_result, budget,
                   closed_at_call, closed_in_wait, waits, writer_closed>>
    /\ UNCHANGED <<wvars, wrvars, pvars, ovars>>

\* the writer is closed from outside (SegmentedStreamWriter.close)
CloseWriter ==
    /\ ~writer_closed
    /\ writer_closed' = TRUE
    /\ closed_after' = Len(content) - Len(chunks)
    /\ closed_in_wait' = IF fpc = "wait" THEN <<Len(requests)>> ELSE closed_in_wait
    /\ UNCHANGED <<fpc, segment, retries, now, clock, requests, fetch_result,
                   budget, closed_at_call, waits>>
    /\ UNCHANGED <<wrpc, content, chunks, buffer, buffer_at_call>>
    /\ UNCHANGED <<wvars, pvars, ovars>>

NextFetch ==
    \/ FetchCall
    \/ FetchEnter
    \/ SleepUntil
    \/ IssueRequest
    \/ RequestSucceeds
    \/ RequestFails
    \/ Tick
    \/ CloseWriter

FetchStart == InitFetch /\ WorkerIdle /\ ParseIdle /\ OpenIdle

SpecFetch == FetchStart /\ [][NextFetch]_vars

\* ------------------------------------------------------------------------
\* Properties of fetch
\* ------------------------------------------------------------------------

\* C5: a fetch called with budget 0 or None, or on a closed writer, returns
\* None, issues no request and waits for no availability instant
C5_NoBudgetNoRequest ==
    (fpc \notin {"idle", "call"} /\ (budget \in {<<>>, <<0>>} \/ closed_at_call)) =>
        /\ fpc \in {"entry", "done"}
        /\ requests = <<>>
        /\ waits = 0
        /\ fpc = "done" => fetch_result = ReturnedNone

\* C5 witness: such a call, on an open writer with budget 0, has returned
C5_Witness ==
    /\ fpc = "done"
    /\ fetch_result = ReturnedNone
    /\ budget = <<0>>
    /\ ~writer_closed

\* C6: on a writer that stays open, a fetch with budget N >= 1 issues every
\* request for the segment's url; if it returns None it has issued exactly
\* N requests (all failed), and if it returns a response, that is the
\* response to its last request, the k-th with k <= N
C6_RetriesUpToBudget ==
    (fpc = "done" /\ ~writer_closed /\ budget \notin {<<>>, <<0>>}) =>
        /\ \A i \in 1..Len(requests) : requests[i].url = segment.url
        /\ fetch_result = ReturnedNone => Len(requests) = budget[1]
        /\ fetch_result # ReturnedNone =>
              /\ fetch_result = Response(Len(requests))
              /\ Len(requests) >= 1
              /\ Len(requests) <= budget[1]

\* C6 witness: a budget of MaxRetries used up
C6_Witness ==
    /\ fpc = "done"
    /\ ~writer_closed
    /\ budget = <<MaxRetries>>
    /\ fetch_result = ReturnedNone
    /\ Len(requests) = MaxRetries

\* C7: no request goes out before the segment's availability instant, on
\* the first try or on a retry
C7_NeverFetchedEarly ==
    /\ \A i \in 1..Len(requests) : requests[i].at >= segment.available_at
    /\ fpc \in {"request", "inflight"} => clock >= segment.available_at

\* C7 witness: the availability instant was ahead when fetch first read the
\* clock; the request went out after the wait, and so did a retry
C7_Witness ==
    /\ waits = 1
    /\ segment.available_at > 0
    /\ Len(requests) = 2
    /\ requests[1].at = segment.available_at

\* C18: a writer closed while fetch is inside sleep_until issues no request
\* from then on: the requests stay those issued when it was closed
C18_CloseInterruptsWait ==
    closed_in_wait # Unset => Len(requests) = closed_in_wait[1]

\* ------------------------------------------------------------------------
\* DASHStreamWriter.write
\* ------------------------------------------------------------------------
RECURSIVE SeqsUpTo(_, _)
SeqsUpTo(S, n) ==
    IF n = 0 THEN {<<>>}
    ELSE LET shorter == SeqsUpTo(S, n - 1)
         IN  shorter \cup {Append(q, x) : q \in shorter, x \in S}

ContentInputs == SeqsUpTo({"a", "b"}, MaxChunks)

\* a closed test that lets every chunk through
WriteAllowed_Always(c) == TRUE

\* line 46
WriteAllowed(c) == ~c

InitWrite ==
    /\ writer_closed \in BOOLEAN
    /\ wrpc = "loop"
    /\ content \in ContentInputs
    /\ chunks = content
    /\ buffer \in {<<>>, <<"z">>}
    /\ buffer_at_call = buffer
    /\ closed_after = 0
    /\ fpc = "idle"
    /\ segment = NoSegment
    /\ retries = <<>>
    /\ now = 0
    /\ clock = 0
    /\ requests = <<>>
    /\ fetch_result = NoResult
    /\ budget = <<>>
    /\ closed_at_call = FALSE
    /\ closed_in_wait = Unset
    /\ waits = 0

\* lines 45-47: the next chunk goes to the buffer
WriteChunk ==
    /\ wrpc = "loop"
    /\ chunks # <<>>
    /\ WriteAllowed(writer_closed)
    /\ buffer' = Append(buffer, Head(chunks))
    /\ chunks' = Tail(chunks)
    /\ UNCHANGED <<wrpc, content, buffer_at_call, closed_after, writer_closed>>
    /\ UNCHANGED <<wvars, fvars, pvars, ovars>>

\* lines 48-50: closed; write returns with the chunks that are left
WriteAbort ==
    /\ wrpc = "loop"
    /\ chunks # <<>>
    /\ ~WriteAllowed(writer_closed)
    /\ wrpc' = "aborted"
    /\ UNCHANGED <<content, chunks, buffer, buffer_at_call, closed_after,
                   writer_closed>>
    /\ UNCHANGED <<wvars, fvars, pvars, ovars>>

\* lines 45, 52: the iterator is exhausted
WriteComplete ==
    /\ wrpc = "loop"
    /\ chunks = <<>>
    /\ wrpc' = "complete"
    /\ UNCHANGED <<content, chunks, buffer, buffer_at_call, closed_after,
                   writer_closed>>
    /\ UNCHANGED <<wvars, fvars, pvars, ovars>>

NextWrite ==
    \/ WriteChunk
    \/ WriteAbort
    \/ WriteComplete
    \/ CloseWriter

WriteStart == InitWrite /\ WorkerIdle /\ ParseIdle /\ OpenIdle

SpecWrite == WriteStart /\ [][NextWrite]_vars

\* ------------------------------------------------------------------------
\* Properties of write
\* ------------------------------------------------------------------------
ChunksWritten == Len(content) - Len(chunks)

\* C8: the buffer holds what it held before, then the chunks written so
\* far, in order; no chunk is written once the closed flag is set, and
\* write then returns with the rest unwritten; with the flag never set,
\* write ends with every chunk written
C8_AbortKeepsWrittenChunks ==
    wrpc # "idle" =>
        /\ buffer = buffer_at_call \o SubSeq(content, 1, ChunksWritten)
        /\ writer_closed => ChunksWritten = closed_after
        /\ wrpc = "aborted" => (writer_closed /\ chunks # <<>>)
        /\ wrpc = "complete" => buffer = buffer_at_call \o content
        /\ ~writer_closed => wrpc # "aborted"

\* C8 witness: closed after two of three chunks; write returned, the two
\* chunks in the buffer behind what was there before
C8_Witness ==
    /\ wrpc = "aborted"
    /\ Len(content) = 3
    /\ closed_after = 2
    /\ buffer_at_call # <<>>
    /\ buffer = buffer_at_call \o SubSeq(content, 1, 2)

\* ------------------------------------------------------------------------
\* DASHStream.parse_manifest
\* ------------------------------------------------------------------------
\* A representation as parse_manifest reads it. mimeType is <<type, subtype>>;
\* height is in pixels, 0 when the manifest gives none; bandwidth is in
\* half kbit/s, so that values between two whole numbers exist.
VideoRep(id, h, bw) ==
    [id |-> id, mimeType |-> <<"video", "mp4">>, height |-> h, bandwidth |-> bw]

AudioRep(id, bw) ==
    [id |-> id, mimeType |-> <<"audio", "mp4">>, height |-> 0, bandwidth |-> bw]

TextRep(id) ==
    [id |-> id, mimeType |-> <<"text", "vtt">>, height |-> 0, bandwidth |-> 2]

RepLists ==
    { <<>>,
      <<VideoRep("v1", 720, 4000)>>,
      <<VideoRep("v1", 720, 4000), VideoRep("v3", 1080, 8000)>>,
      <<VideoRep("v1", 720, 4000), VideoRep("v2", 720, 8000)>>,
      <<VideoRep("v4", 0, 1441)>>,
      <<AudioRep("a1", 192)>>,
      <<AudioRep("a1", 192), AudioRep("a2", 256)>>,
      <<TextRep("t1"), AudioRep("a3", 191)>> }

AdaptationSets == [contentProtection : BOOLEAN, representations : RepLists]

ManifestInputs == SeqsUpTo(AdaptationSets, MaxSets)

\* a protection test that finds nothing protected
IsProtected_Never(aset) == FALSE

\* line 158
IsProtected(aset) == aset.contentProtection

\* lines 161, 163: rep.mimeType.startswith(kind)
MimeIs(rep, kind) == rep.mimeType[1] = kind

IsVideo(rep) == MimeIs(rep, "video")

\* line 163 is an elif
IsAudio(rep) == ~MimeIs(rep, "video") /\ MimeIs(rep, "audio")

\* lines 166-170
OrNone(list) == IF list = <<>> THEN <<None>> ELSE list

\* line 172: itertools.product, the last list running fastest
RECURSIVE PairsWith(_, _)
PairsWith(v, as) ==
    IF as = <<>> THEN <<>> ELSE <<<<v, Head(as)>>>> \o PairsWith(v, Tail(as))

RECURSIVE Product(_, _)
Product(vs, as) ==
    IF vs = <<>> THEN <<>> ELSE PairsWith(Head(vs), as) \o Product(Tail(vs), as)

\* "{:0.0f}" of a number of halves: to the nearest whole number, a half to
\* the even one
Format0f(halves) ==
    LET q == halves \div 2
    IN  ToString(IF halves % 2 = 0 THEN q ELSE IF q % 2 = 0 THEN q ELSE q + 1)

\* line 177
VideoName(vid) ==
    IF vid.height # 0
    THEN ToString(vid.height) \o "p"
    ELSE Format0f(vid.bandwidth) \o "k"

\* line 179
AudioName(aud) == "a" \o Format0f(aud.bandwidth) \o "k"

\* an audio test that asks for one audio choice too many
HasAudioSuffix_OffByOne(auds) == auds # <<>> /\ Len(auds) > 2

\* line 178
HasAudioSuffix(auds) == auds # <<>> /\ Len(auds) > 1

\* lines 174-179: the components of the name
NameParts(vid, aud, auds) ==
    (IF vid # None THEN <<VideoName(vid)>> ELSE <<>>)
    \o (IF HasAudioSuffix(auds) THEN <<AudioName(aud)>> ELSE <<>>)

\* line 180: '+'.join
RECURSIVE Join(_)
Join(parts) ==
    IF parts = <<>> THEN ""
    ELSE IF Len(parts) = 1 THEN Head(parts)
    ELSE Head(parts) \o "+" \o Join(Tail(parts))

StreamName(vid, aud, auds) == Join(NameParts(vid, aud, auds))

\* line 173
Stream(vid, aud) == [video_representation |-> vid, audio_representation |-> aud]

\* line 180: ret[name] = stream
Put(d, k, v) == [n \in (DOMAIN d) \cup {k} |-> IF n = k THEN v ELSE d[n]]

InitParse ==
    /\ ppc = "sets"
    /\ asets \in ManifestInputs
    /\ aset_idx = 1
    /\ video = <<>>
    /\ audio = <<>>
    /\ pairs = <<>>
    /\ ret = <<>>

\* lines 157-164: one adaptation set
ParseSet ==
    /\ ppc = "sets"
    /\ aset_idx <= Len(asets)
    /\ LET aset == asets[aset_idx]
       IN  IF IsProtected(aset)
           THEN /\ ppc' = "raised"
                /\ UNCHANGED <<aset_idx, video, audio>>
           ELSE /\ video' = video \o SelectSeq(aset.representations, IsVideo)
                /\ audio' = audio \o SelectSeq(aset.representations, IsAudio)
                /\ aset_idx' = aset_idx + 1
                /\ UNCHANGED ppc
    /\ UNCHANGED <<asets, pairs, ret>>
    /\ UNCHANGED <<wvars, writer_closed, fvars, wrvars, ovars>>

\* lines 166-172: the loop over the sets is over
StartVariants ==
    /\ ppc = "sets"
    /\ aset_idx > Len(asets)
    /\ video' = OrNone(video)
    /\ audio' = OrNone(audio)
    /\ pairs' = Product(video', audio')
    /\ ppc' = "pairs"
    /\ UNCHANGED <<asets, aset_idx, ret>>
    /\ UNCHANGED <<wvars, writer_closed, fvars, wrvars, ovars>>

\* lines 172-180: one (vid, aud) pair
AddVariant ==
    /\ ppc = "pairs"
    /\ pairs # <<>>
    /\ LET vid == Head(pairs)[1]
           aud == Head(pairs)[2]
       IN  ret' = Put(ret, StreamName(vid, aud, audio), Stream(vid, aud))
    /\ pairs' = Tail(pairs)
    /\ UNCHANGED <<ppc, asets, aset_idx, video, audio>>
    /\ UNCHANGED <<wvars, writer_closed, fvars, wrvars, ovars>>

\* line 181
ParseReturn ==
    /\ ppc = "pairs"
    /\ pairs = <<>>
    /\ ppc' = "returned"
    /\ UNCHANGED <<asets, aset_idx, video, audio, pairs, ret>>
    /\ UNCHANGED <<wvars, writer_closed, fvars, wrvars, ovars>>

NextParse ==
    \/ ParseSet
    \/ StartVariants
    \/ AddVariant
    \/ ParseReturn

ParseStart == InitParse /\ WorkerIdle /\ WriterIdle /\ OpenIdle

SpecParse == ParseStart /\ [][NextParse]_vars

\* ------------------------------------------------------------------------
\* Properties of parse_manifest
\* ------------------------------------------------------------------------
ProtectedSets == {i \in 1..Len(asets) : asets[i].contentProtection}

FirstProtected == CHOOSE i \in ProtectedSets : \A j \in ProtectedSets : i <= j

AllReps == Flatten([i \in 1..Len(asets) |-> asets[i].representations])

CountOf(kind) == Cardinality({i \in 1..Len(AllReps) : AllReps[i].mimeType[1] = kind})

SameRepresentation(r, q) ==
    \/ r.id = q.id
    \/ /\ r.mimeType = q.mimeType
       /\ r.height = q.height
       /\ r.bandwidth = q.bandwidth

NoDuplicates ==
    \A i, j \in 1..Len(AllReps) :
        i # j => ~SameRepresentation(AllReps[i], AllReps[j])

\* C9: with a protected adaptation set in the first period, parse_manifest
\* raises at the first such set, wherever it stands and whatever was
\* collected before it; it never returns and never builds a variant
C9_ProtectedRaises ==
    (ppc # "idle" /\ ProtectedSets # {}) =>
        /\ ppc \in {"sets", "raised"}
        /\ DOMAIN ret = {}
        /\ ppc = "sets" => aset_idx <= FirstProtected
        /\ ppc = "raised" => aset_idx = FirstProtected

\* C9 witness: the protected set comes second, behind an unprotected one
\* whose video representations were collected
C9_Witness ==
    /\ ppc = "raised"
    /\ Len(asets) = 2
    /\ ~asets[1].contentProtection
    /\ asets[2].contentProtection
    /\ video # <<>>

\* C10: for an unprotected manifest with no duplicate representations the
\* mapping returned has max(1, #video) x max(1, #audio) entries
C10_OneVariantPerPair ==
    (ppc = "returned" /\ NoDuplicates) =>
        Cardinality(DOMAIN ret) =
            Max2(1, CountOf("video")) * Max2(1, CountOf("audio"))

\* the video component of a name: the height with "p", or without a height
\* the bandwidth with "k"
VideoComponent(vid) ==
    IF vid = None THEN ""
    ELSE IF vid.height # 0 THEN ToString(vid.height) \o "p"
    ELSE Format0f(vid.bandwidth) \o "k"

AudioComponent(aud) == "a" \o Format0f(aud.bandwidth) \o "k"

ManyAudio == CountOf("audio") > 1

\* C11 as claimed: every name returned is the video component, followed by
\* "+a<audio bandwidth>k" if and only if there is more than one audio choice
C11_NameAsClaimed ==
    ppc = "returned" =>
        \A n \in DOMAIN ret :
            n = VideoComponent(ret[n].video_representation)
                \o (IF ManyAudio
                    THEN "+" \o AudioComponent(ret[n].audio_representation)
                    ELSE "")

\* C11 as amended: that holds of the variants with a video representation;
\* the name of a variant without one is "a<audio bandwidth>k" alone, with no
\* "+" before it, when there is more than one audio choice, and the empty
\* name otherwise
C11_NameOfVariant ==
    ppc = "returned" =>
        \A n \in DOMAIN ret :
            LET vid == ret[n].video_representation
                aud == ret[n].audio_representation
            IN  n = IF vid # None
                    THEN VideoComponent(vid)
                         \o (IF ManyAudio THEN "+" \o AudioComponent(aud) ELSE "")
                    ELSE IF ManyAudio THEN AudioComponent(aud) ELSE ""

\* C11 witness: two audio choices and a video without a height, all named
C11_Witness ==
    /\ ppc = "returned"
    /\ ManyAudio
    /\ "720k+a96k" \in DOMAIN ret
    /\ "720k+a128k" \in DOMAIN ret

\* ------------------------------------------------------------------------
\* DASHStream.open, and the workers of the readers it opens
\* ------------------------------------------------------------------------
\* manifests that hold both representations a stream can be built from
OpenManifests ==
    {m \in Manifests : /\ m.minimumUpdatePeriod = 2
                       /\ m.duration = 0
                       /\ Len(m.adaptationSets) = 2}

VideoInputs == {None, Rep("v1", MaxSegs)}

AudioInputs == {None, Rep("a1", 1)}

\* lines 184, 188, 192-196: a representation is true, None is not
Present(rep) == rep # None

\* a muxer that is told to stamp the streams anew
CopyTs_Off == FALSE

\* line 193: copyts=True
CopyTs == TRUE

\* a reload that writes the fetched manifest over the object it holds
AssignedMpd_InPlace(cur, fresh) == cur

\* lines 98 and 105: self.mpd is bound to the object MPD(...) constructed
AssignedMpd(cur, fresh) == fresh

\* lines 56-59 and 62: the worker reader.open() starts; its self.mpd is the
\* object that is self.stream.mpd
StartedWorker == [pc |-> "head", mpd |-> 1, back_off_factor |-> One,
                  init |-> TRUE, closed |-> FALSE, cycles |-> 0]

\* lines 113-116
Reader(role, rep_id) == [role |-> role, representation_id |-> rep_id]

ReadersOf(role) == {i \in 1..Len(readers) : readers[i].role = role}

\* the local `video` or `audio` of open: the reader created for the role
ReaderOf(role) == CHOOSE i \in ReadersOf(role) : TRUE

InitOpen ==
    /\ opc = "video"
    /\ video_representation \in VideoInputs
    /\ audio_representation \in AudioInputs
    /\ mpd_objects \in {<<m>> : m \in OpenManifests}
    /\ readers = <<>>
    /\ muxers = <<>>
    /\ open_result = NoResult
    /\ pipes = [r \in Roles |-> Unopened]

\* lines 184-186
OpenVideo ==
    /\ opc = "video"
    /\ IF Present(video_representation)
       THEN /\ readers' = Append(readers, Reader("video", video_representation.id))
            /\ pipes' = [pipes EXCEPT !["video"] = StartedWorker]
       ELSE UNCHANGED <<readers, pipes>>
    /\ opc' = "audio"
    /\ UNCHANGED <<video_representation, audio_representation, mpd_objects,
                   muxers, open_result>>
    /\ UNCHANGED <<wvars, writer_closed, fvars, wrvars, pvars>>

\* lines 188-190
OpenAudio ==
    /\ opc = "audio"
    /\ IF Present(audio_representation)
       THEN /\ readers' = Append(readers, Reader("audio", audio_representation.id))
            /\ pipes' = [pipes EXCEPT !["audio"] = StartedWorker]
       ELSE UNCHANGED <<readers, pipes>>
    /\ opc' = "return"
    /\ UNCHANGED <<video_representation, audio_representation, mpd_objects,
                   muxers, open_result>>
    /\ UNCHANGED <<wvars, writer_closed, fvars, wrvars, pvars>>

\* lines 192-196; with neither representation open falls off its end
OpenReturn ==
    /\ opc = "return"
    /\ IF Present(video_representation) /\ Present(audio_representation)
       THEN /\ muxers' = Append(muxers, [streams |-> <<ReaderOf("video"), ReaderOf("audio")>>,
                                         copyts |-> CopyTs])
            /\ open_result' = [kind |-> "muxer", muxer |-> Len(muxers')]
       ELSE /\ UNCHANGED muxers
            /\ open_result' =
                  IF Present(video_representation)
                  THEN [kind |-> "reader", reader |-> ReaderOf("video")]
                  ELSE IF Present(audio_representation)
                       THEN [kind |-> "reader", reader |-> ReaderOf("audio")]
                       ELSE ReturnedNone
    /\ opc' = "done"
    /\ UNCHANGED <<video_representation, audio_representation, mpd_objects,
                   readers, pipes>>
    /\ UNCHANGED <<wvars, writer_closed, fvars, wrvars, pvars>>

OpenFrame ==
    /\ UNCHANGED <<opc, video_representation, audio_representation, readers,
                   muxers, open_result>>
    /\ UNCHANGED <<wvars, writer_closed, fvars, wrvars, pvars>>

\* the worker of a reader is closed from outside
PipeClose(r) ==
    /\ pipes[r].pc # "unopened"
    /\ ~pipes[r].closed
    /\ pipes' = [pipes EXCEPT ![r].closed = TRUE]
    /\ UNCHANGED mpd_objects
    /\ OpenFrame

\* line 64, closed
PipeLoopExit(r) ==
    /\ pipes[r].pc = "head"
    /\ pipes[r].closed
    /\ pipes' = [pipes EXCEPT ![r].pc = "done"]
    /\ UNCHANGED mpd_objects
    /\ OpenFrame

\* lines 64-80: one iteration up to the end of the segment sequence; without
\* the representation the iteration ends here
PipeLoopHead(r) ==
    /\ pipes[r].pc = "head"
    /\ ~pipes[r].closed
    /\ pipes[r].cycles < MaxOpenCycles
    /\ LET rep == FindRepresentation(mpd_objects[pipes[r].mpd],
                                     readers[ReaderOf(r)].representation_id)
       IN  pipes' = [pipes EXCEPT ![r].cycles = @ + 1,
                                  ![r].pc = IF rep # None THEN "after" ELSE "head"]
    /\ UNCHANGED mpd_objects
    /\ OpenFrame

\* lines 86-87
PipeStaticReturn(r) ==
    /\ pipes[r].pc = "after"
    /\ ~IsDynamic(mpd_objects[pipes[r].mpd])
    /\ pipes' = [pipes EXCEPT ![r].pc = "done"]
    /\ UNCHANGED mpd_objects
    /\ OpenFrame

\* lines 81-83, 88, 91-92: reload() of a closed worker
PipeReloadClosed(r) ==
    /\ pipes[r].pc = "after"
    /\ IsDynamic(mpd_objects[pipes[r].mpd])
    /\ ReloadReturnsAtOnce(pipes[r].closed)
    /\ pipes' = [pipes EXCEPT ![r].back_off_factor = GrowBackOff(@),
                              ![r].init = InitAfterCycle,
                              ![r].pc = "head"]
    /\ UNCHANGED mpd_objects
    /\ OpenFrame

\* lines 96-101: reload() raises
PipeReloadRaises(r) ==
    /\ pipes[r].pc = "after"
    /\ IsDynamic(mpd_objects[pipes[r].mpd])
    /\ ~ReloadReturnsAtOnce(pipes[r].closed)
    /\ pipes' = [pipes EXCEPT ![r].pc = "raised"]
    /\ UNCHANGED mpd_objects
    /\ OpenFrame

\* lines 81-85, 88, 94-107: reload() fetches a manifest
PipeReloadFetched(r) ==
    /\ pipes[r].pc = "after"
    /\ IsDynamic(mpd_objects[pipes[r].mpd])
    /\ ~ReloadReturnsAtOnce(pipes[r].closed)
    /\ \E m \in OpenManifests :
          LET target == AssignedMpd(pipes[r].mpd, Len(mpd_objects) + 1)
          IN  IF Changed(m, mpd_objects[pipes[r].mpd])
              THEN /\ mpd_objects' = IF target > Len(mpd_objects)
                                     THEN Append(mpd_objects, m)
                                     ELSE [mpd_objects EXCEPT ![target] = m]
                   /\ pipes' = [pipes EXCEPT ![r].mpd = target,
                                             ![r].back_off_factor = ResetBackOff,
                                             ![r].init = InitAfterCycle,
                                             ![r].pc = "head"]
              ELSE /\ UNCHANGED mpd_objects
                   /\ pipes' = [pipes EXCEPT ![r].back_off_factor = GrowBackOff(@),
                                             ![r].init = InitAfterCycle,
                                             ![r].pc = "head"]
    /\ OpenFrame

NextOpen ==
    \/ OpenVideo
    \/ OpenAudio
    \/ OpenReturn
    \/ \E r \in Roles : PipeClose(r)
    \/ \E r \in Roles : PipeLoopExit(r)
    \/ \E r \in Roles : PipeLoopHead(r)
    \/ \E r \in Roles : PipeStaticReturn(r)
    \/ \E r \in Roles : PipeReloadClosed(r)
    \/ \E r \in Roles : PipeReloadRaises(r)
    \/ \E r \in Roles : PipeReloadFetched(r)

OpenStart == InitOpen /\ WorkerIdle /\ WriterIdle /\ ParseIdle

SpecOpen == OpenStart /\ [][NextOpen]_vars

\* ------------------------------------------------------------------------
\* Properties of open
\* ------------------------------------------------------------------------
RepOf(role) == IF role = "video" THEN video_representation ELSE audio_representation

\* C12: when open has returned there is exactly one reader for each
\* representation the stream has, bound to that representation's id, and
\* none for one it lacks; with both, one muxer was created over the video
\* and the audio reader with copyts on and its output returned; with one,
\* that reader was returned and no muxer created
C12_OpenComposes ==
    /\ Len(muxers) <= 1
    /\ \A role \in Roles :
          /\ Cardinality(ReadersOf(role)) <= 1
          /\ RepOf(role) = None => ReadersOf(role) = {}
    /\ opc = "done" =>
          /\ \A role \in Roles :
                RepOf(role) # None =>
                   /\ Cardinality(ReadersOf(role)) = 1
                   /\ readers[ReaderOf(role)].representation_id = RepOf(role).id
                   /\ pipes[role].pc # "unopened"
          /\ (video_representation # None /\ audio_representation # None) =>
                /\ muxers = << [streams |-> <<ReaderOf("video"), ReaderOf("audio")>>,
                                copyts |-> TRUE] >>
                /\ open_result = [kind |-> "muxer", muxer |-> 1]
          /\ \A role \in Roles :
                (RepOf(role) # None /\ RepOf(IF role = "video" THEN "audio" ELSE "video") = None) =>
                   /\ muxers = <<>>
                   /\ open_result = [kind |-> "reader", reader |-> ReaderOf(role)]

\* C12 witness: open has returned the muxer made of both readers
C12_Witness ==
    /\ opc = "done"
    /\ Len(readers) = 2
    /\ readers[1].representation_id = "v1"
    /\ readers[2].representation_id = "a1"
    /\ open_result = [kind |-> "muxer", muxer |-> 1]

Other(r) == IF r = "video" THEN "audio" ELSE "video"

C20_Frame ==
    \A r \in Roles :
       (/\ pipes[r].pc # "unopened"
        /\ pipes[Other(r)].pc # "unopened"
        /\ pipes'[r] # pipes[r]) =>
           /\ mpd_objects'[pipes'[Other(r)].mpd] = mpd_objects[pipes[Other(r)].mpd]
           /\ pipes'[Other(r)].back_off_factor = pipes[Other(r)].back_off_factor
           /\ pipes'[Other(r)].init = pipes[Other(r)].init
           /\ pipes'[Other(r)].closed = pipes[Other(r)].closed

\* C20: a step of one reader's worker (a reload, a change of the backoff
\* multiplier, a close) leaves the manifest, the multiplier, the init
\* flag and the closed flag of the other reader's worker as they were
C20_PipelinesIndependent == [][C20_Frame]_vars

\* C20 witness: the video worker replaced its manifest and reset its
\* multiplier; the audio worker, closed, still has the stream's manifest
\* and a grown multiplier
C20_Witness ==
    /\ pipes["video"].mpd > 1
    /\ pipes["audio"].mpd = 1
    /\ mpd_objects[pipes["video"].mpd] # mpd_objects[1]
    /\ pipes["video"].back_off_factor = One
    /\ pipes["audio"].back_off_factor = Ten
    /\ pipes["audio"].closed
    /\ ~pipes["video"].closed

====
